---- MODULE Spec2Model ----
(***************************************************************************)
(* Model of script.js: the gallery renderer addRice and the submission     *)
(* flow submitRice / createGitHubIssue with its keypress binding.          *)
(* Strings the code inspects (the URL field) are sequences of one-character*)
(* strings, so that trim() and includes() are computed, not assumed.       *)
(***************************************************************************)
EXTENDS Integers, Sequences, FiniteSets, TLC

\* ------------------------------------------------------------------ bounds
\* How many times submitRice may be invoked in one behaviour.
MaxInvocations == 2
\* How many cards addRice may append in one behaviour.
MaxCards == 2
\* The same two numbers for the whole page, where both run side by side.
MaxPageInvocations == 1
MaxPageCards == 1

\* ------------------------------------------------------------------ strings
\* Characters String.prototype.trim strips (those the inputs below use).
WhiteSpace == {" ", "\t"}

\* 'reddit.com/r/unixporn', the literal of line 52.
Needle ==
  <<"r","e","d","d","i","t",".","c","o","m","/","r","/","u","n","i","x","p","o","r","n">>

Https == <<"h","t","t","p","s",":","/","/">>

\* "https://reddit.com/r/unixporn/comments/abc123"
GoodUrl == Https \o Needle \o <<"/","c","o","m","m","e","n","t","s","/","a","b","c","1","2","3">>

\* "https://example.com/post"
OtherSiteUrl == Https \o <<"e","x","a","m","p","l","e",".","c","o","m","/","p","o","s","t">>

\* "https://reddit.com/r/linux": the right site, another community.
OtherSubUrl == Https \o <<"r","e","d","d","i","t",".","c","o","m","/","r","/","l","i","n","u","x">>

\* What the user may have in the URL field.
Inputs ==
  { <<>>,
    <<" ", "\t">>,
    GoodUrl,
    <<" ">> \o GoodUrl \o <<"\t", " ">>,
    Needle,
    OtherSiteUrl,
    OtherSubUrl \o <<" ">> }

\* Keys a keypress event on the field may carry.
Keys == {"Enter", "a"}

\* Values of Math.random(), in tenths: 0.0, 0.1, 0.2, 0.9.
RandomTenths == {0, 1, 2, 9}

RECURSIVE TrimStart(_)
TrimStart(s) ==
  IF s # <<>> /\ Head(s) \in WhiteSpace THEN TrimStart(Tail(s)) ELSE s

RECURSIVE TrimEnd(_)
TrimEnd(s) ==
  IF s # <<>> /\ s[Len(s)] \in WhiteSpace
  THEN TrimEnd(SubSeq(s, 1, Len(s) - 1))
  ELSE s

\* A plausible slip: only the leading white space is stripped.
TrimLeadingOnly(s) == TrimStart(s)

\* String.prototype.trim
Trim(s) == TrimEnd(TrimStart(s))

\* String.prototype.indexOf from position i (1-based); 0 stands for -1.
RECURSIVE IndexOfFrom(_, _, _)
IndexOfFrom(s, sub, i) ==
  IF i + Len(sub) - 1 > Len(s) THEN 0
  ELSE IF SubSeq(s, i, i + Len(sub) - 1) = sub THEN i
  ELSE IndexOfFrom(s, sub, i + 1)

\* A plausible slip: only the host part 'reddit.com' of the literal is sought.
IncludesHostOnly(s, sub) == IndexOfFrom(s, SubSeq(sub, 1, 10), 1) # 0

\* String.prototype.includes
Includes(s, sub) == IndexOfFrom(s, sub, 1) # 0

\* ------------------------------------------------------------------ markup
\* Markup is a sequence of atoms: a tag opener ("<img"), an end-tag opener
\* ("</div"), an attribute name with its opening quote ("src=\""), a double
\* quote, ">", or a run of characters with no meaning to the HTML tokenizer.
TagOpen == {"<div", "<video", "<source", "<img", "<a", "<span"}
TagClose == {"</div", "</video", "</a", "</span"}
AttrOpen == {"class=\"", "src=\"", "alt=\"", "type=\"", "href=\"", "target=\""}

Attr(open, v) == <<open>> \o v \o <<"\"">>

\* Array.prototype.join(','), which `${mediaUrl}` applies to an array.
RECURSIVE Join(_)
Join(items) ==
  IF items = <<>> THEN <<>>
  ELSE IF Len(items) = 1 THEN items[1]
  ELSE items[1] \o <<",">> \o Join(Tail(items))

\* Line 14, one <img> per url, appended in forEach order.
RECURSIVE GalleryImages(_)
GalleryImages(items) ==
  IF items = <<>> THEN <<>>
  ELSE <<"<img">> \o Attr("src=\"", items[1]) \o Attr("alt=\"", <<"Screenshot">>)
         \o Attr("class=\"", <<"rice-image">>) \o <<">">>
         \o GalleryImages(Tail(items))

\* `${mediaUrl}` for a string and for an array.
MediaText(m) == IF m.isArray THEN Join(m.items) ELSE m.str

\* Lines 7-20.
MediaHTML(mediaUrl, mediaType) ==
  IF mediaType = "video"
  THEN <<"<video">> \o Attr("class=\"", <<"rice-video">>) \o <<"controls", ">">>
         \o <<"<source">> \o Attr("src=\"", MediaText(mediaUrl))
         \o Attr("type=\"", <<"video/mp4">>) \o <<">">>
         \o <<"Your browser does not support the video tag.", "</video", ">">>
  ELSE IF mediaUrl.isArray
  THEN <<"<div">> \o Attr("class=\"", <<"gallery">>) \o <<">">>
         \o GalleryImages(mediaUrl.items)
         \o <<"</div", ">">>
  ELSE <<"<img">> \o Attr("src=\"", MediaText(mediaUrl))
         \o Attr("alt=\"", <<"Desktop Screenshot">>)
         \o Attr("class=\"", <<"rice-image">>) \o <<">">>

\* Lines 22-35, the template literal assigned to innerHTML.
CardHTML(e) ==
  <<"<div">> \o Attr("class=\"", <<"rice-header">>) \o <<">">>
    \o <<"<div">> \o Attr("class=\"", <<"username">>) \o <<">", "u/">>
    \o e.username \o <<"</div", ">">>
    \o <<"<div">> \o Attr("class=\"", <<"rice-title">>) \o <<">">>
    \o e.title \o <<"</div", ">">>
    \o <<"</div", ">">>
    \o <<"<div">> \o Attr("class=\"", <<"media-container">>) \o <<">">>
    \o MediaHTML(e.mediaUrl, e.mediaType)
    \o <<"</div", ">">>
    \o <<"<a">> \o Attr("href=\"", e.redditUrl) \o Attr("class=\"", <<"post-link">>)
    \o Attr("target=\"", <<"_blank">>) \o <<">", "View on Reddit", "</a", ">">>
    \o <<"<div">> \o Attr("class=\"", <<"stats">>) \o <<">">>
    \o <<"<span", ">", "upvotes ", ToString(e.upvotes), "</span", ">">>
    \o <<"<span", ">", "comments ", ToString(e.comments), "</span", ">">>
    \o <<"</div", ">">>

\* One step of the HTML tokenizer the innerHTML setter runs: in text ("data"),
\* inside a tag ("tag"), inside a double-quoted attribute value ("attr").
TokenStep(st, a) ==
  CASE st.mode = "data" ->
         IF a \in TagOpen \cup TagClose
         THEN [st EXCEPT !.mode = "tag", !.tag = a, !.src = <<>>, !.hasSrc = FALSE]
         ELSE st
    [] st.mode = "tag" ->
         IF a = ">"
         THEN [st EXCEPT !.mode = "data",
                         !.out = IF st.tag \in TagOpen
                                 THEN Append(@, [tag |-> st.tag, src |-> st.src])
                                 ELSE @]
         ELSE IF a \in AttrOpen
         THEN [st EXCEPT !.mode = "attr", !.name = a, !.val = <<>>]
         ELSE st
    [] OTHER ->
         IF a = "\"" \/ a \in AttrOpen
         THEN [st EXCEPT !.mode = "tag",
                         !.src = IF st.name = "src=\"" /\ ~st.hasSrc THEN st.val ELSE @,
                         !.hasSrc = @ \/ st.name = "src=\""]
         ELSE [st EXCEPT !.val = Append(@, a)]

TokenModes == {"data", "tag", "attr"}

\* The tokenizer run over html[lo..hi] from state st, left to right. The range is
\* split in halves, the first half finished before the second is begun, only to
\* keep the evaluation shallow.
RECURSIVE Tokenize(_, _, _, _)
Tokenize(st, html, lo, hi) ==
  IF lo > hi THEN st
  ELSE IF lo = hi THEN TokenStep(st, html[lo])
  ELSE LET mid == (lo + hi) \div 2
           left == Tokenize(st, html, lo, mid)
       IN IF left.mode \in TokenModes
          THEN Tokenize(left, html, mid + 1, hi)
          ELSE left

\* The elements the innerHTML setter creates from the markup, in document order:
\* [tag, src]. A tag left open at the end of the markup creates none.
ParseHTML(html) ==
  Tokenize([mode |-> "data", tag |-> "", src |-> <<>>, hasSrc |-> FALSE,
            name |-> "", val |-> <<>>, out |-> <<>>], html, 1, Len(html)).out

\* Arguments page code may pass to addRice.
Titles == { <<"My setup">>, <<"<img", "src=\"", "x.png", "\"", ">">> }

MediaUrls ==
  { [isArray |-> FALSE, str |-> <<"a.mp4">>, items |-> <<>>],
    [isArray |-> FALSE, str |-> <<"\"", ">", "<img", ">">>, items |-> <<>>],
    [isArray |-> TRUE, str |-> <<>>, items |-> <<>>],
    [isArray |-> TRUE, str |-> <<>>, items |-> << <<"a.png">> >>],
    [isArray |-> TRUE, str |-> <<>>, items |-> << <<"a.png">>, <<"b.png">> >>] }

MediaTypes == {"video", "image"}

Entries ==
  [username : { <<"alice">> }, title : Titles, mediaUrl : MediaUrls,
   mediaType : MediaTypes, redditUrl : { <<"https://reddit.com/r/unixporn/comments/abc123">> }, upvotes : {12}, comments : {3}]

\* ------------------------------------------------------------------ state
VARIABLES
  value,        \* urlInput.value
  disabled,     \* submitBtn.disabled
  textContent,  \* submitBtn.textContent
  alerts,       \* the alert() calls so far: [inv, text]
  invs,         \* the submitRice invocations so far: [raw, pre]
  calls,        \* the createGitHubIssue calls so far: [inv, url, ctl]
  promises,     \* per call, the promise it returned: [state, reason, cleaned]
  timers,       \* pending setTimeout callbacks (call ids), in firing order
  chain,        \* the promise reaction that runs next: [id, at, state, reason, edited]
  grid,         \* the children of #riceGrid: [className, args, elements]
  addCalls      \* the addRice calls so far: [args, pending]

vars ==
  <<value, disabled, textContent, alerts, invs, calls, promises, timers, chain, grid,
    addCalls>>

submitVars ==
  <<value, disabled, textContent, alerts, invs, calls, promises, timers, chain>>

\* The part of the page the handlers of submitRice read and write.
Dom == [value |-> value, disabled |-> disabled, textContent |-> textContent,
        alerts |-> alerts]

SetDom(d) ==
  /\ value' = d.value
  /\ disabled' = d.disabled
  /\ textContent' = d.textContent
  /\ alerts' = d.alerts

Control(d) == <<d.disabled, d.textContent>>

Idle == [id |-> 0, at |-> "idle", state |-> "none", reason |-> "", edited |-> FALSE]

\* alert(text), shown during invocation inv.
Alert(d, inv, text) == [d EXCEPT !.alerts = Append(@, [inv |-> inv, text |-> text])]

\* Lines 58-59.
DisableControl(d) == [d EXCEPT !.disabled = TRUE, !.textContent = "Submitting..."]

\* A plausible slip: the success text is shown, the field is left as it is.
OnResolvedKeepValue(inv, d) ==
  Alert(d, inv, "Rice submitted successfully! It will be reviewed and added if approved.")

\* A plausible slip: the field is cleared only while it still holds the text
\* that invocation inv had read.
OnResolvedClearIfSame(inv, d) ==
  IF d.value = invs[inv].raw
  THEN [Alert(d, inv, "Rice submitted successfully! It will be reviewed and added if approved.")
          EXCEPT !.value = <<>>]
  ELSE Alert(d, inv, "Rice submitted successfully! It will be reviewed and added if approved.")

\* Lines 63-66, the .then handler.
OnResolved(inv, d) ==
  [Alert(d, inv, "Rice submitted successfully! It will be reviewed and added if approved.")
     EXCEPT !.value = <<>>]

\* A plausible slip: the error's message is left out of the text.
OnRejectedNoMessage(inv, reason, d) == Alert(d, inv, "Error submitting rice: ")

\* A plausible slip: the error is swallowed.
OnRejectedSilent(inv, reason, d) == d

\* A plausible slip: the failure branch clears the field as the success branch does.
OnRejectedClearing(inv, reason, d) ==
  [Alert(d, inv, "Error submitting rice: " \o reason) EXCEPT !.value = <<>>]

\* Lines 67-69, the .catch handler.
OnRejected(inv, reason, d) == Alert(d, inv, "Error submitting rice: " \o reason)

\* A plausible slip: the label is restored, the control is left disabled.
OnFinallyLabelOnly(d) == [d EXCEPT !.textContent = "Submit Rice"]

\* Lines 70-73, the .finally handler.
OnFinally(d) == [d EXCEPT !.disabled = FALSE, !.textContent = "Submit Rice"]

\* A plausible slip: a new request clears the timer of the one before it.
ScheduleReplacing(ts, id) == <<id>>

\* setTimeout(callback, 1000): equal delays fire in the order they were set.
Schedule(ts, id) == Append(ts, id)

\* ------------------------------------------------------------------ Init
Init ==
  /\ value = <<>>
  /\ disabled = FALSE
  /\ textContent = "Submit Rice"
  /\ alerts = <<>>
  /\ invs = <<>>
  /\ calls = <<>>
  /\ promises = <<>>
  /\ timers = <<>>
  /\ chain = Idle
  /\ grid = <<>>
  /\ addCalls = <<>>

\* ------------------------------------------------------------------ actions
\* The user edits the URL field. No task runs while reactions are queued.
TypeInput ==
  /\ chain = Idle
  /\ \E v \in Inputs : v # value /\ value' = v
  /\ UNCHANGED <<disabled, textContent, alerts, invs, calls, promises, timers, chain, grid, addCalls>>

\* submitRice(), lines 41-74, with createGitHubIssue(url), lines 77-108, up to
\* its setTimeout.
SubmitRice ==
  LET inv == Len(invs) + 1
      url == Trim(value)
      id  == Len(calls) + 1
  IN
  /\ chain = Idle
  /\ inv <= MaxInvocations
  /\ invs' = Append(invs, [raw |-> value, pre |-> Control(Dom)])
  /\ UNCHANGED <<grid, addCalls>>
  /\ IF url = <<>>
     THEN /\ SetDom(Alert(Dom, inv, "Please enter a Reddit URL"))
          /\ UNCHANGED <<calls, promises, timers, chain>>
     ELSE IF ~Includes(url, Needle)
     THEN /\ SetDom(Alert(Dom, inv, "Please enter a valid r/unixporn post URL"))
          /\ UNCHANGED <<calls, promises, timers, chain>>
     ELSE LET d == DisableControl(Dom) IN
          /\ SetDom(d)
          /\ calls' = Append(calls, [inv |-> inv, url |-> url, ctl |-> Control(d)])
          /\ promises' = Append(promises,
                                [state |-> "pending", reason |-> "", cleaned |-> FALSE])
          /\ timers' = Schedule(timers, id)
          /\ UNCHANGED chain

\* A click on the submit button; a disabled button dispatches no click.
ClickSubmit ==
  /\ ~disabled
  /\ SubmitRice

\* The keypress listener of the URL field, lines 111-115.
KeyPress ==
  \E key \in Keys :
    /\ key = "Enter"
    /\ SubmitRice

\* The setTimeout callback of createGitHubIssue, lines 99-106: the promise settles
\* and its first reaction is queued.
TimerCallback ==
  /\ chain = Idle
  /\ timers # <<>>
  /\ \E r \in RandomTenths :
       LET id == Head(timers)
           st == IF r > 1 THEN "fulfilled" ELSE "rejected"
           why == IF r > 1 THEN "" ELSE "Network error"
       IN
       /\ promises[id].state = "pending"
       /\ promises' = [promises EXCEPT ![id].state = st, ![id].reason = why]
       /\ chain' = [id |-> id, at |-> "then", state |-> st, reason |-> why,
                    edited |-> FALSE]
  /\ timers' = Tail(timers)
  /\ UNCHANGED <<value, disabled, textContent, alerts, invs, calls, grid, addCalls>>

\* .then(onFulfilled), lines 63-66: a rejection passes through. Until the next
\* reaction runs, the chain notes whether the field the handler found differed
\* from the text its invocation had read.
ThenReaction ==
  /\ chain.at = "then"
  /\ IF chain.state = "fulfilled"
     THEN /\ SetDom(OnResolved(calls[chain.id].inv, Dom))
          /\ chain' = [chain EXCEPT !.at = "catch",
                                    !.edited = (value # invs[calls[chain.id].inv].raw)]
     ELSE /\ UNCHANGED <<value, disabled, textContent, alerts>>
          /\ chain' = [chain EXCEPT !.at = "catch"]
  /\ UNCHANGED <<invs, calls, promises, timers, grid, addCalls>>

\* .catch(onRejected), lines 67-69: a fulfilment passes through, a handled
\* rejection becomes a fulfilment.
CatchReaction ==
  /\ chain.at = "catch"
  /\ IF chain.state = "rejected"
     THEN SetDom(OnRejected(calls[chain.id].inv, chain.reason, Dom))
     ELSE UNCHANGED <<value, disabled, textContent, alerts>>
  /\ chain' = [chain EXCEPT !.at = "finally", !.state = "fulfilled", !.reason = "",
                            !.edited = FALSE]
  /\ UNCHANGED <<invs, calls, promises, timers, grid, addCalls>>

\* .finally(onFinally), lines 70-73.
FinallyReaction ==
  /\ chain.at = "finally"
  /\ SetDom(OnFinally(Dom))
  /\ promises' = [promises EXCEPT ![chain.id].cleaned = TRUE]
  /\ chain' = Idle
  /\ UNCHANGED <<invs, calls, timers, grid, addCalls>>

\* A plausible slip: an entry already shown is not added again.
AppendChildOnce(g, card) ==
  IF \E k \in 1..Len(g) : g[k].args = card.args THEN g ELSE Append(g, card)

\* grid.appendChild(riceCard), line 37.
AppendChild(g, card) == Append(g, card)

\* A plausible slip: the renderer also resets the submit button.
AddRiceFromResetting(S) ==
  /\ chain = Idle
  /\ Len(addCalls) < MaxCards
  /\ \E e \in S :
       /\ grid' = AppendChild(grid, [className |-> "rice-card", args |-> e,
                                     elements |-> ParseHTML(CardHTML(e))])
       /\ addCalls' = Append(addCalls, [args |-> e, pending |-> Len(timers)])
  /\ disabled' = FALSE
  /\ textContent' = "Submit Rice"
  /\ UNCHANGED <<value, alerts, invs, calls, promises, timers, chain>>

\* addRice(username, title, mediaUrl, mediaType, redditUrl, upvotes, comments),
\* lines 2-38, with an entry of S. Page code calls it as a task of its own; the
\* call is logged with the number of requests pending at that time.
AddRiceFrom(S) ==
  /\ chain = Idle
  /\ Len(addCalls) < MaxCards
  /\ \E e \in S :
       /\ grid' = AppendChild(grid, [className |-> "rice-card", args |-> e,
                                     elements |-> ParseHTML(CardHTML(e))])
       /\ addCalls' = Append(addCalls, [args |-> e, pending |-> Len(timers)])
  /\ UNCHANGED submitVars

AddRice == AddRiceFrom(Entries)

\* The submission flow: the URL field, the button, the request.
SubmitNext ==
  \/ TypeInput
  \/ ClickSubmit
  \/ KeyPress
  \/ TimerCallback
  \/ ThenReaction
  \/ CatchReaction
  \/ FinallyReaction

SubmitSpec == Init /\ [][SubmitNext]_vars

\* The timer task and the reaction jobs it queues always get to run.
SubmitFair ==
  /\ WF_vars(TimerCallback)
  /\ WF_vars(ThenReaction)
  /\ WF_vars(CatchReaction)
  /\ WF_vars(FinallyReaction)

SubmitFairSpec == SubmitSpec /\ SubmitFair

\* The gallery renderer alone.
GalleryNext == AddRice

GallerySpec == Init /\ [][GalleryNext]_vars

\* The whole page: page code renders entries while the user submits, within the
\* page's own bounds.
PageEntries ==
  {e \in Entries : e.title = <<"My setup">> /\ e.mediaUrl.str = <<"a.mp4">>}

PageAddRice ==
  /\ Len(addCalls) < MaxPageCards
  /\ AddRiceFrom(PageEntries)

PageSubmit ==
  /\ SubmitNext
  /\ Len(invs') <= MaxPageInvocations

PageNext ==
  \/ PageSubmit
  \/ PageAddRice

PageSpec == Init /\ [][PageNext]_vars

\* ------------------------------------------------------------------ vocabulary of the claims
\* The first and the last position of raw that hold no white space
\* (Len(raw) + 1 and 0 when there is none).
FirstInk(raw) ==
  CHOOSE lo \in 1..(Len(raw) + 1) :
    /\ \A k \in 1..(lo - 1) : raw[k] \in WhiteSpace
    /\ lo <= Len(raw) => raw[lo] \notin WhiteSpace

LastInk(raw) ==
  CHOOSE hi \in 0..Len(raw) :
    /\ \A k \in (hi + 1)..Len(raw) : raw[k] \in WhiteSpace
    /\ hi >= 1 => raw[hi] \notin WhiteSpace

\* raw without its leading and trailing white space.
Trimmed(raw) == SubSeq(raw, FirstInk(raw), LastInk(raw))

Contains(t, sub) ==
  \E i \in 1..Len(t) : i + Len(sub) - 1 <= Len(t) /\ SubSeq(t, i, i + Len(sub) - 1) = sub

\* The field value passes the validation of the submission flow.
PassesValidation(raw) == Trimmed(raw) # <<>> /\ Contains(Trimmed(raw), Needle)

ValidationTexts == {"Please enter a Reddit URL", "Please enter a valid r/unixporn post URL"}
SuccessText == "Rice submitted successfully! It will be reviewed and added if approved."

AlertsOf(inv) == {k \in 1..Len(alerts) : alerts[k].inv = inv}
CallsOf(inv) == {c \in 1..Len(calls) : calls[c].inv = inv}

\* A request is in flight from its dispatch until the reactions to its settlement
\* have run.
InFlight == {id \in 1..Len(promises) : ~promises[id].cleaned}

\* This step is an invocation of submitRice.
Invoked == Len(invs') = Len(invs) + 1
\* This step ends the reactions to the settlement of request id.
Cleaned(id) == ~promises[id].cleaned /\ promises'[id].cleaned

CountTag(elements, tag) == Cardinality({k \in 1..Len(elements) : elements[k].tag = tag})

\* ------------------------------------------------------------------ C1
\* C1: for every input that passes validation, the control is disabled (with the
\* in-progress label) when Issue Creation is invoked, and when the reactions to
\* the request's settlement have run, on either branch, the control is enabled
\* with the label 'Submit Rice', which is the state it had before the trigger.
C1_ControlRestored ==
  [][ /\ Len(calls') > Len(calls) =>
           calls'[Len(calls')].ctl = <<TRUE, "Submitting...">>
      /\ \A id \in 1..Len(promises) :
           Cleaned(id) =>
             /\ <<disabled', textContent'>> = <<FALSE, "Submit Rice">>
             /\ <<disabled', textContent'>> = invs[calls[id].inv].pre ]_vars

\* ------------------------------------------------------------------ C2
\* C2: an invocation whose trimmed field value is empty or lacks
\* 'reddit.com/r/unixporn' shows one validation notification, leaves the control's
\* disabled flag and label as they were (an enabled control stays enabled), and
\* invokes no Issue Creation.
C2_InvalidInputLeavesControl ==
  [][ (Invoked /\ ~PassesValidation(value)) =>
        /\ Len(alerts') = Len(alerts) + 1
        /\ alerts'[Len(alerts')].inv = Len(invs')
        /\ alerts'[Len(alerts')].text \in ValidationTexts
        /\ disabled' = disabled
        /\ textContent' = textContent
        /\ (~disabled => ~disabled')
        /\ calls' = calls
        /\ promises' = promises
        /\ timers' = timers ]_vars

\* Both validation failures have happened with the control enabled: a blank field
\* and a text without the literal.
C2_Witness ==
  /\ ~disabled
  /\ calls = <<>>
  /\ \E i, j \in 1..Len(invs) :
       /\ Trimmed(invs[i].raw) = <<>> /\ invs[i].raw # <<>>
       /\ Trimmed(invs[j].raw) # <<>> /\ ~Contains(invs[j].raw, Needle)
       /\ AlertsOf(i) # {} /\ AlertsOf(j) # {}

\* ------------------------------------------------------------------ C3
\* C3: while the control is disabled no step (a click or an Enter keypress)
\* invokes Issue Creation, so at most one request is in flight at any time.
C3_NoCallWhileDisabled ==
  [][ /\ disabled => calls' = calls
      /\ Cardinality(InFlight') <= 1 ]_vars

\* ------------------------------------------------------------------ C4
\* C4: the control is disabled, showing the in-progress label, exactly while one
\* request is in flight.
C4_DisabledIffOneInFlight ==
  /\ disabled <=> Cardinality(InFlight) = 1
  /\ disabled <=> textContent = "Submitting..."
  /\ ~disabled => InFlight = {}

\* ------------------------------------------------------------------ C5
\* C5: under fairness of the timer and the reactions, a disabled control is
\* eventually enabled again with the label 'Submit Rice'.
C5_EventuallyEnabled == disabled ~> (~disabled /\ textContent = "Submit Rice")

\* The control is disabled and the request has just been rejected.
C5_Witness ==
  /\ disabled
  /\ chain.at = "then"
  /\ chain.state = "rejected"

\* ------------------------------------------------------------------ C6
\* C6: every Issue Creation call carries the trimmed field value read by its
\* invocation, which is not empty and contains 'reddit.com/r/unixporn'; an
\* invocation that passes validation makes exactly one call, any other none.
C6_CallsCarryValidUrl ==
  /\ \A c \in 1..Len(calls) :
       /\ calls[c].inv \in 1..Len(invs)
       /\ calls[c].url = Trimmed(invs[calls[c].inv].raw)
       /\ calls[c].url # <<>>
       /\ Contains(calls[c].url, Needle)
  /\ \A i \in 1..Len(invs) :
       Cardinality(CallsOf(i)) = IF PassesValidation(invs[i].raw) THEN 1 ELSE 0

\* A field value with white space around a valid URL has been submitted.
C6_Witness ==
  \E c \in 1..Len(calls) :
    /\ invs[calls[c].inv].raw # calls[c].url
    /\ invs[calls[c].inv].raw[Len(invs[calls[c].inv].raw)] \in WhiteSpace

\* ------------------------------------------------------------------ C7
\* C7: once the .then reaction of a resolved request has run, that invocation has
\* shown exactly one notification, the success text, and the field is empty until
\* the reactions end.
C7_ResolvedShowsSuccessAndClears ==
  /\ [](\A id \in 1..Len(promises) :
          (/\ promises[id].state = "fulfilled"
           /\ promises[id].cleaned \/ (chain.id = id /\ chain.at \in {"catch", "finally"}))
          => /\ Cardinality(AlertsOf(calls[id].inv)) = 1
             /\ \A k \in AlertsOf(calls[id].inv) : alerts[k].text = SuccessText
             /\ ~promises[id].cleaned => value = <<>>)
  /\ [][\A id \in 1..Len(promises) :
          (Cleaned(id) /\ promises[id].state = "fulfilled") => value' = <<>>]_vars

\* A request submitted from a non-empty field has resolved and its reactions ran.
C7_Witness ==
  \E id \in 1..Len(promises) :
    /\ promises[id].state = "fulfilled"
    /\ promises[id].cleaned
    /\ value = <<>>
    /\ chain = Idle

\* ------------------------------------------------------------------ C8
\* C8: once the .catch reaction of a rejected request has run, that invocation has
\* shown exactly one notification, 'Error submitting rice: ' followed by the
\* error's message; no reaction invokes Issue Creation: a call is made only by an
\* invocation of submitRice, and none while reactions are still to run.
C8_RejectedShowsMessageNoRetry ==
  /\ [](\A id \in 1..Len(promises) :
          (/\ promises[id].state = "rejected"
           /\ promises[id].cleaned \/ (chain.id = id /\ chain.at = "finally"))
          => /\ promises[id].reason = "Network error"
             /\ Cardinality(AlertsOf(calls[id].inv)) = 1
             /\ \A k \in AlertsOf(calls[id].inv) :
                  alerts[k].text = "Error submitting rice: " \o promises[id].reason)
  /\ [][calls' # calls => (Invoked /\ chain = Idle /\ Len(calls') = Len(calls) + 1)]_vars

\* A request was rejected, the control was re-enabled, and the user submitted again.
C8_Witness ==
  \E id \in 1..Len(promises) :
    /\ promises[id].state = "rejected"
    /\ promises[id].cleaned
    /\ Len(calls) > id
    /\ calls[id + 1].ctl = <<TRUE, "Submitting...">>
    /\ invs[calls[id + 1].inv].pre = <<FALSE, "Submit Rice">>

\* ------------------------------------------------------------------ C9
\* C9: a pending request keeps its timer whatever the user does, a settled one
\* has none and keeps its outcome, the outcome is success or failure with a
\* message, and under fairness every request settles.
C9_SettlesExactlyOnce ==
  /\ [](\A id \in 1..Len(promises) :
          /\ promises[id].state \in {"pending", "fulfilled", "rejected"}
          /\ Cardinality({k \in 1..Len(timers) : timers[k] = id})
               = IF promises[id].state = "pending" THEN 1 ELSE 0
          /\ promises[id].state = "rejected" <=> promises[id].reason # "")
  /\ [][\A id \in 1..Len(promises) :
          promises[id].state # "pending" =>
            /\ promises'[id].state = promises[id].state
            /\ promises'[id].reason = promises[id].reason]_vars
  /\ \A id \in 1..MaxInvocations :
       (Len(promises) >= id) ~> (Len(promises) >= id /\ promises[id].state # "pending")

\* A request is still pending after a later invocation of submitRice and an edit
\* of the field.
C9_Witness ==
  \E id \in 1..Len(promises) :
    /\ promises[id].state = "pending"
    /\ Len(invs) > calls[id].inv
    /\ value # invs[calls[id].inv].raw

\* ------------------------------------------------------------------ C10
\* Atoms the HTML tokenizer gives a meaning to.
MarkupAtoms == TagOpen \cup TagClose \cup AttrOpen \cup {"\"", ">"}

\* No text argument of the entry holds markup.
MarkupFree(e) ==
  \A txt \in {e.username, e.title, MediaText(e.mediaUrl), e.redditUrl} :
    \A k \in 1..Len(txt) : txt[k] \notin MarkupAtoms

\* With arguments free of markup a video card holds one video element and no
\* image element, whether mediaUrl is a string or an array.
C10_MarkupFreeVideoCard ==
  \A k \in 1..Len(grid) :
    (grid[k].args.mediaType = "video" /\ MarkupFree(grid[k].args)) =>
      /\ CountTag(grid[k].elements, "<video") = 1
      /\ CountTag(grid[k].elements, "<source") = 1
      /\ CountTag(grid[k].elements, "<img") = 0

\* C10: every card made with mediaType = 'video' holds exactly one video element
\* and no image element.
C10_VideoCardOneVideoNoImage ==
  \A k \in 1..Len(grid) :
    grid[k].args.mediaType = "video" =>
      /\ CountTag(grid[k].elements, "<video") = 1
      /\ CountTag(grid[k].elements, "<img") = 0

\* ------------------------------------------------------------------ C11
IsImage(el) == el.tag = "<img"

\* The image elements of a card, in document order.
Images(card) == SelectSeq(card.elements, IsImage)

\* The card holds one image element per item of the array, in the array's order,
\* and no video element.
GalleryOf(card) ==
  /\ Len(Images(card)) = Len(card.args.mediaUrl.items)
  /\ \A i \in 1..Len(Images(card)) : Images(card)[i].src = card.args.mediaUrl.items[i]
  /\ CountTag(card.elements, "<video") = 0

\* With arguments free of markup a card made from an array of N references holds
\* exactly N image elements in the array's order.
C11_MarkupFreeGalleryCard ==
  \A k \in 1..Len(grid) :
    (/\ grid[k].args.mediaType # "video"
     /\ grid[k].args.mediaUrl.isArray
     /\ MarkupFree(grid[k].args)) => GalleryOf(grid[k])

\* C11: every card made with mediaType other than 'video' from an array of N
\* references (N = 0 included) holds exactly N image elements, the i-th with the
\* i-th reference as its src, and no video element.
C11_GalleryCardNImagesInOrder ==
  \A k \in 1..Len(grid) :
    (grid[k].args.mediaType # "video" /\ grid[k].args.mediaUrl.isArray)
      => GalleryOf(grid[k])

\* ------------------------------------------------------------------ C12
\* With arguments free of markup a card made from one reference holds exactly one
\* image element, with that reference as its src.
C12_MarkupFreeSingleImageCard ==
  \A k \in 1..Len(grid) :
    (/\ grid[k].args.mediaType # "video"
     /\ ~grid[k].args.mediaUrl.isArray
     /\ MarkupFree(grid[k].args))
      => /\ Len(Images(grid[k])) = 1
         /\ Images(grid[k])[1].src = grid[k].args.mediaUrl.str
         /\ CountTag(grid[k].elements, "<video") = 0

\* C12: every card made with mediaType other than 'video' from a single reference
\* holds exactly one image element and no video element.
C12_SingleImageCardOneImage ==
  \A k \in 1..Len(grid) :
    (grid[k].args.mediaType # "video" /\ ~grid[k].args.mediaUrl.isArray)
      => /\ CountTag(grid[k].elements, "<img") = 1
         /\ CountTag(grid[k].elements, "<video") = 0


\* ------------------------------------------------------------------ C13
\* This step is a call of addRice.
Rendered == Len(addCalls') = Len(addCalls) + 1

\* C13: addRice only appends. After k calls the grid holds exactly k cards, the
\* k-th built from the arguments of the k-th call; each call adds its card as the
\* last child and leaves the earlier cards as they were; nothing is merged, so
\* two calls with identical arguments give two cards.
C13_AppendOnly ==
  /\ [](/\ Len(grid) = Len(addCalls)
        /\ \A k \in 1..Len(grid) :
             /\ grid[k].className = "rice-card"
             /\ grid[k].args = addCalls[k].args)
  /\ [][Rendered =>
          /\ Len(grid') = Len(grid) + 1
          /\ SubSeq(grid', 1, Len(grid)) = grid
          /\ grid'[Len(grid')].args = addCalls'[Len(addCalls')].args]_vars

\* addRice has been called twice with identical arguments.
C13_Witness ==
  /\ Len(addCalls) = 2
  /\ addCalls[1].args = addCalls[2].args
  /\ Len(grid) = 2
  /\ grid[1] = grid[2]

\* ------------------------------------------------------------------ C14
\* C14: the renderer and the submission flow share no mutable state. A call of
\* addRice, also one made while a request is in flight, leaves the button's
\* disabled flag, its label and the URL field's value as they were; no step of the
\* submission flow (an invocation, the timer, a reaction) changes the grid.
C14_NoSharedState ==
  [][ /\ (Rendered \/ grid' # grid) =>
           /\ value' = value
           /\ disabled' = disabled
           /\ textContent' = textContent
      /\ (Invoked \/ timers' # timers \/ chain' # chain \/ promises' # promises
          \/ alerts' # alerts \/ calls' # calls)
           => grid' = grid ]_vars

\* A card was added while the only request was pending and the control disabled;
\* the request has since settled and its reactions have run.
C14_Witness ==
  /\ Len(promises) = 1
  /\ promises[1].cleaned
  /\ Len(addCalls) >= 1
  /\ addCalls[1].pending = 1
  /\ Len(grid) = Len(addCalls)
  /\ ~disabled

\* ------------------------------------------------------------------ C15
\* The notifications invocation i has shown are exactly the one its progress
\* calls for: a validation text at once (the empty check first), nothing while
\* its request is pending or its reaction has not yet run, then the success text
\* or the failure text of its own request.
NotifiedAsDue(i) ==
  LET raw == invs[i].raw
      texts == [k \in AlertsOf(i) |-> alerts[k].text]
  IN  /\ Cardinality(AlertsOf(i)) <= 1
      /\ IF Trimmed(raw) = <<>>
         THEN \E k \in AlertsOf(i) : texts[k] = "Please enter a Reddit URL"
         ELSE IF ~Contains(Trimmed(raw), Needle)
         THEN \E k \in AlertsOf(i) : texts[k] = "Please enter a valid r/unixporn post URL"
         ELSE \E id \in CallsOf(i) :
                CASE promises[id].state = "pending" -> AlertsOf(i) = {}
                  [] chain.id = id /\ chain.at = "then" -> AlertsOf(i) = {}
                  [] chain.id = id /\ chain.at = "catch" /\ promises[id].state = "rejected"
                       -> AlertsOf(i) = {}
                  [] promises[id].state = "fulfilled"
                       -> \E k \in AlertsOf(i) : texts[k] = SuccessText
                  [] OTHER
                       -> \E k \in AlertsOf(i) :
                            texts[k] = "Error submitting rice: " \o promises[id].reason

\* C15: every invocation of submitRice yields exactly one notification, never
\* none and never two: a validation text in the invocation itself, or else one of
\* success and failure once its own request has settled.
C15_OneNotificationPerInvocation ==
  /\ [](\A i \in 1..Len(invs) : NotifiedAsDue(i))
  /\ (\E i \in 1..Len(invs) : AlertsOf(i) = {})
       ~> (\A i \in 1..Len(invs) : Cardinality(AlertsOf(i)) = 1)

\* Two invocations, one stopped by the substring check on a non-blank text and
\* one whose request was rejected, have each shown their one notification.
C15_Witness ==
  /\ chain = Idle
  /\ \E i, j \in 1..Len(invs) :
       /\ Trimmed(invs[i].raw) # <<>>
       /\ ~PassesValidation(invs[i].raw)
       /\ Cardinality(AlertsOf(i)) = 1
       /\ \E id \in CallsOf(j) :
            /\ promises[id].state = "rejected"
            /\ promises[id].cleaned
            /\ Cardinality(AlertsOf(j)) = 1

\* ------------------------------------------------------------------ C16
\* This step belongs to the submission flow (a user's edit changes the field only).
FlowStep ==
  <<disabled, textContent, alerts, invs, calls, promises, timers, chain>>' #
  <<disabled, textContent, alerts, invs, calls, promises, timers, chain>>

\* C16: the submission flow writes the URL field on the success branch only. An
\* invocation (a validation failure or a dispatch), the timer and the reactions to
\* a rejection leave the field exactly as it was; the one write is the clearing
\* by the .then reaction of a fulfilled request.
C16_FieldWrittenOnSuccessOnly ==
  [][ /\ (FlowStep /\ value' # value) =>
           (chain.at = "then" /\ chain.state = "fulfilled" /\ value' = <<>>)
      /\ Invoked => value' = value
      /\ (chain.state = "rejected" /\ chain' # chain) => value' = value ]_vars

\* A request has been rejected and its reactions have run with the field still
\* holding the text submitted, after an invocation that failed validation on a
\* non-blank text.
C16_Witness ==
  /\ chain = Idle
  /\ \E id \in 1..Len(promises) :
       /\ promises[id].state = "rejected"
       /\ promises[id].cleaned
       /\ value = invs[calls[id].inv].raw
       /\ value # <<>>
  /\ \E i \in 1..Len(invs) :
       /\ invs[i].raw # <<>>
       /\ ~PassesValidation(invs[i].raw)

\* ------------------------------------------------------------------ C17
\* C17: the .then reaction of a fulfilled request empties the field whatever it
\* holds at that time, a text edited since the trigger included; the URL of a
\* call stays the trimmed text read at trigger time.
C17_ClearsWhateverFieldHolds ==
  /\ [][(chain.at = "then" /\ chain.state = "fulfilled" /\ chain' # chain) =>
          value' = <<>>]_vars
  /\ [][\A c \in 1..Len(calls) : calls'[c] = calls[c]]_vars
  /\ [](\A c \in 1..Len(calls) : calls[c].url = Trimmed(invs[calls[c].inv].raw))

\* The field was edited to another text while the request was in
\* flight, and the .then reaction has just emptied it.
C17_Witness ==
  /\ chain.at = "catch"
  /\ chain.state = "fulfilled"
  /\ chain.edited
  /\ value = <<>>
  /\ calls[chain.id].url = Trimmed(invs[calls[chain.id].inv].raw)

====
